---- MODULE Spec2Model ----
(***************************************************************************)
(* Model of api/client/people.ts: the cross-organization people route.     *)
(*                                                                         *)
(*  - Spec / SeqSpec: concurrent (resp. non-overlapping) requests running  *)
(*    equivalentLegacyPeopleSearch / getPeopleAcrossOrganizations against  *)
(*    the module-level LeakyLocalCache keyed by the constant true.         *)
(*  - HandlerSpec: the synchronous part of one request: type              *)
(*    normalisation, filter list, MemberSearch options, page slicing and   *)
(*    the mapping of each member to its response record.                   *)
(*                                                                         *)
(* LeakyLocalCache (./leakyLocalCache) and JsonPager (./jsonPager) are     *)
(* imported by people.ts; their behaviour is taken from spec.md 4.1, 4.3.  *)
(***************************************************************************)
EXTENDS Integers, Sequences, FiniteSets, TLC

VARIABLES now, cache, pc, snap, served, calls, lastSet, misses, req, h

vars == <<now, cache, pc, snap, served, calls, lastSet, misses, req, h>>

cacheVars == <<now, cache, pc, snap, served, calls, lastSet, misses>>

-----------------------------------------------------------------------------
(* Bounds of the model *)

NumRequests == 2

MaxCalls == 2

MaxTime == 3

\* cache-wide time-to-live of leakyLocalCachePeople, in clock ticks
TTL == 2

Requests == 1..NumRequests

CallIds == 1..MaxCalls

-----------------------------------------------------------------------------
(* JavaScript values *)

Undefined == "<undefined>"

Null == "<null>"

\* what get() yields when there is no valid entry (undefined: falsy)
Absent == 0

\* if (type), if (phrase): undefined, null and the empty string are falsy
Truthy(x) == x \notin {Undefined, Null, ""}

\* if (value): an absent value is falsy, a snapshot object is truthy
Cached(v) == v # Absent

Min(a, b) == IF a < b THEN a ELSE b

Max(a, b) == IF a > b THEN a ELSE b

-----------------------------------------------------------------------------
(* LeakyLocalCache<boolean, ICrossOrganizationMembersResult>, key true *)

\* new LeakyLocalCache(): no entry
EmptyCache == [present |-> FALSE, value |-> Absent, insertedAt |-> 0]

\* get(key): the value while now - insertedAt < ttl, else absent; read-only
CacheGet(c, t) ==
  IF c.present /\ t - c.insertedAt < TTL THEN c.value ELSE Absent

\* set(key, value): insert or overwrite, stamped with the current time
CacheSet(c, v, t) == [present |-> TRUE, value |-> v, insertedAt |-> t]

-----------------------------------------------------------------------------
(* operations.getMembers(): one record per invocation *)

NoCall == [state |-> "unused", issuedAt |-> 0]

Issued(c) == {i \in CallIds : c[i].state # "unused"}

InFlight(c) == {i \in CallIds : c[i].state = "inflight"}

Succeeded(c) == {i \in CallIds : c[i].state = "ok"}

Failed(c) == {i \in CallIds : c[i].state = "failed"}

\* no set has been executed yet
NoSet == [value |-> Absent, at |-> 0]

-----------------------------------------------------------------------------
(* getPeopleAcrossOrganizations *)

\* a get that returns the stored value without the expiry test
LookupPeopleNoExpiry(c, t) == IF c.present THEN c.value ELSE Absent

\* line 28: const value = leakyLocalCachePeople.get(true)
LookupPeople(c, t) == CacheGet(c, t)

\* a set that leaves a still valid entry in place
StorePeopleKeepFirst(c, v, t) ==
  IF Cached(CacheGet(c, t)) THEN c ELSE CacheSet(c, v, t)

\* line 33: leakyLocalCachePeople.set(true, crossOrganizationMembers)
StorePeople(c, v, t) == CacheSet(c, v, t)

\* A request arrives; equivalentLegacyPeopleSearch awaits getLinksLightCache.
Start(r) ==
  /\ pc[r] \in {"idle", "ok", "error"}
  /\ pc' = [pc EXCEPT ![r] = "links"]
  /\ UNCHANGED <<req, h, now, cache, snap, served, calls, lastSet, misses>>

\* getLinksLightCache rejects: the handler's catch answers with jsonError.
LinksFail(r) ==
  /\ pc[r] = "links"
  /\ pc' = [pc EXCEPT ![r] = "error"]
  /\ UNCHANGED <<req, h, now, cache, snap, served, calls, lastSet, misses>>

\* a hit that stores the value again, restarting its time-to-live
GetHitRefreshes(r) ==
  /\ pc[r] = "links"
  /\ Cached(LookupPeople(cache, now))
  /\ snap' = [snap EXCEPT ![r] = LookupPeople(cache, now)]
  /\ served' = [served EXCEPT ![r] = "cache"]
  /\ cache' = StorePeople(cache, LookupPeople(cache, now), now)
  /\ pc' = [pc EXCEPT ![r] = "search"]
  /\ UNCHANGED <<req, h, now, calls, lastSet, misses>>

\* Links resolved; get finds a valid entry (lines 28-31): it is returned,
\* nothing is fetched or stored, and the caller goes on to await search.search.
GetHit(r) ==
  /\ pc[r] = "links"
  /\ Cached(LookupPeople(cache, now))
  /\ snap' = [snap EXCEPT ![r] = LookupPeople(cache, now)]
  /\ served' = [served EXCEPT ![r] = "cache"]
  /\ pc' = [pc EXCEPT ![r] = "search"]
  /\ UNCHANGED <<req, h, now, cache, calls, lastSet, misses>>

\* a miss that waits for a call already in flight instead of issuing its own
GetMissJoinsInFlight(r) ==
  /\ pc[r] = "links"
  /\ ~Cached(LookupPeople(cache, now))
  /\ Issued(calls) # CallIds
  /\ IF InFlight(calls) # {}
       THEN /\ snap' = [snap EXCEPT ![r] = CHOOSE i \in InFlight(calls) : TRUE]
            /\ calls' = calls
       ELSE LET id == Cardinality(Issued(calls)) + 1 IN
              /\ calls' = [calls EXCEPT ![id] = [state |-> "inflight", issuedAt |-> now]]
              /\ snap' = [snap EXCEPT ![r] = id]
  /\ misses' = misses + 1
  /\ pc' = [pc EXCEPT ![r] = "fetching"]
  /\ UNCHANGED <<req, h, now, cache, served, lastSet>>

\* Links resolved; get finds nothing valid (lines 28-32): operations.getMembers()
\* is invoked and awaited.
GetMiss(r) ==
  /\ pc[r] = "links"
  /\ ~Cached(LookupPeople(cache, now))
  /\ Issued(calls) # CallIds    \* at most MaxCalls calls in a behaviour
  /\ LET id == Cardinality(Issued(calls)) + 1 IN
       /\ calls' = [calls EXCEPT ![id] = [state |-> "inflight", issuedAt |-> now]]
       /\ snap' = [snap EXCEPT ![r] = id]
  /\ misses' = misses + 1
  /\ pc' = [pc EXCEPT ![r] = "fetching"]
  /\ UNCHANGED <<req, h, now, cache, served, lastSet>>

\* getMembers resolves (lines 32-34): the result is stored and returned.
GetMembersOk(r) ==
  /\ pc[r] = "fetching"
  /\ calls' = [calls EXCEPT ![snap[r]].state = "ok"]
  /\ cache' = StorePeople(cache, snap[r], now)
  /\ lastSet' = [value |-> snap[r], at |-> now]
  /\ served' = [served EXCEPT ![r] = "provider"]
  /\ pc' = [pc EXCEPT ![r] = "search"]
  /\ UNCHANGED <<req, h, now, snap, misses>>

\* a rejection that is remembered as an absent marker
GetMembersFailCachesMarker(r) ==
  /\ pc[r] = "fetching"
  /\ calls' = [calls EXCEPT ![snap[r]].state = "failed"]
  /\ cache' = StorePeople(cache, Absent, now)
  /\ snap' = [snap EXCEPT ![r] = Absent]
  /\ pc' = [pc EXCEPT ![r] = "error"]
  /\ UNCHANGED <<req, h, now, served, lastSet, misses>>

\* getMembers rejects (line 32): the rejection propagates through the awaits
\* to the handler's catch (lines 128-130); line 33 is never reached.
GetMembersFail(r) ==
  /\ pc[r] = "fetching"
  /\ calls' = [calls EXCEPT ![snap[r]].state = "failed"]
  /\ snap' = [snap EXCEPT ![r] = Absent]
  /\ pc' = [pc EXCEPT ![r] = "error"]
  /\ UNCHANGED <<req, h, now, cache, served, lastSet, misses>>

\* search.search resolves: the page is sliced, normalised and sent.
SearchOk(r) ==
  /\ pc[r] = "search"
  /\ pc' = [pc EXCEPT ![r] = "ok"]
  /\ snap' = [snap EXCEPT ![r] = Absent]
  /\ served' = [served EXCEPT ![r] = "none"]
  /\ UNCHANGED <<req, h, now, cache, calls, lastSet, misses>>

\* search.search rejects.
SearchFail(r) ==
  /\ pc[r] = "search"
  /\ pc' = [pc EXCEPT ![r] = "error"]
  /\ snap' = [snap EXCEPT ![r] = Absent]
  /\ served' = [served EXCEPT ![r] = "none"]
  /\ UNCHANGED <<req, h, now, cache, calls, lastSet, misses>>

\* The clock advances.
Tick ==
  /\ now < MaxTime
  /\ now' = now + 1
  /\ UNCHANGED <<req, h, cache, pc, snap, served, calls, lastSet, misses>>

CacheInit ==
  /\ now = 0
  /\ cache = EmptyCache
  /\ pc = [r \in Requests |-> "idle"]
  /\ snap = [r \in Requests |-> Absent]
  /\ served = [r \in Requests |-> "none"]
  /\ calls = [i \in CallIds |-> NoCall]
  /\ lastSet = NoSet
  /\ misses = 0

\* no request is in its synchronous part
HandlerIdle ==
  /\ req = [type |-> Undefined]
  /\ h = [pc |-> "off"]

Init == CacheInit /\ HandlerIdle

Next ==
  \/ \E r \in Requests : Start(r)
  \/ \E r \in Requests : LinksFail(r)
  \/ \E r \in Requests : GetHit(r)
  \/ \E r \in Requests : GetMiss(r)
  \/ \E r \in Requests : GetMembersOk(r)
  \/ \E r \in Requests : GetMembersFail(r)
  \/ \E r \in Requests : SearchOk(r)
  \/ \E r \in Requests : SearchFail(r)
  \/ Tick

Spec == Init /\ [][Next]_vars

-----------------------------------------------------------------------------
(* Properties of the people cache *)

\* the value a get performed in the current state returns
GetNow == LookupPeople(cache, now)

\* request r completes its get with a hit (resp. a miss) in this step
HitStep(r) == pc[r] = "links" /\ pc'[r] = "search"

MissStep(r) == pc[r] = "links" /\ pc'[r] = "fetching"

\* the getMembers call of request r rejects in this step
FetchFailStep(r) == pc[r] = "fetching" /\ pc'[r] = "error"

\* C1: a get returns a value exactly while less than TTL has elapsed since the
\* most recent set, and then it is the stored entry's value; once TTL or more
\* has elapsed it returns absent although the entry was neither set nor deleted.
C1_CacheTtl ==
  /\ Cached(GetNow) <=> (lastSet.value # Absent /\ now - lastSet.at < TTL)
  /\ Cached(GetNow) => /\ cache.present
                       /\ now - cache.insertedAt < TTL
                       /\ GetNow = cache.value

C1_Witness ==
  /\ lastSet.value # Absent
  /\ now - lastSet.at >= TTL
  /\ cache.present /\ cache.value = lastSet.value /\ cache.insertedAt = lastSet.at
  /\ GetNow = Absent

\* C2: when getMembers fails the request ends in the error response, nothing
\* is stored and the cache is what it was; the cache never holds anything but
\* the result of a successful call; and every get that finds no valid entry
\* issues a getMembers call, also after a failure.
C2_FailureNotCached ==
  [][ /\ \A r \in Requests :
           FetchFailStep(r) => /\ calls'[snap[r]].state = "failed"
                               /\ cache' = cache
                               /\ lastSet' = lastSet
      /\ \A r \in Requests : MissStep(r) => cache' = cache /\ lastSet' = lastSet
      /\ cache'.present => cache'.value \in Succeeded(calls')
      /\ \A r \in Requests :
           (pc[r] = "links" /\ ~Cached(GetNow) /\ pc'[r] \notin {"links", "error"})
             => /\ pc'[r] = "fetching"
                /\ Issued(calls') = Issued(calls) \cup {snap'[r]}
                /\ snap'[r] \notin Issued(calls)
    ]_vars

C2_Witness ==
  \E i, j \in CallIds :
    /\ i < j
    /\ calls[i].state = "failed"
    /\ calls[j].state = "inflight"
    /\ calls[j].issuedAt = calls[i].issuedAt
    /\ \E r \in Requests : pc[r] = "error"

\* C6 (as stated): whenever a request is served a snapshot from the cache, the
\* getMembers call that produced it was issued no more than TTL earlier.
C6_IssuedWithinTtl ==
  [][ \A r \in Requests :
        HitStep(r) => now - calls[snap'[r]].issuedAt <= TTL ]_vars

\* C6 (amended): whenever a request is served a snapshot from the cache, the
\* set that stored it was executed less than TTL earlier, and the getMembers
\* call that produced it was issued no later than that set.
C6_StoredWithinTtl ==
  [][ \A r \in Requests :
        HitStep(r) => /\ served'[r] = "cache"
                      /\ snap'[r] = cache.value
                      /\ now - cache.insertedAt < TTL
                      /\ calls[snap'[r]].state = "ok"
                      /\ calls[snap'[r]].issuedAt <= cache.insertedAt ]_vars

C6_Witness ==
  \E r \in Requests :
    /\ pc[r] = "search" /\ served[r] = "cache"
    /\ snap[r] = cache.value
    /\ now - cache.insertedAt < TTL
    /\ now - calls[snap[r]].issuedAt > TTL

\* C7: a get within TTL of the most recent set returns the value of the set
\* that executed last, whatever the order in which the calls were issued, and
\* never the value of a set that has been overwritten.
C7_LastWriteWins ==
  /\ (lastSet.value # Absent /\ now - lastSet.at < TTL) => GetNow = lastSet.value
  /\ GetNow \notin Succeeded(calls) \ {lastSet.value}
  /\ \A r \in Requests :
       (pc[r] = "search" /\ served[r] = "cache") => snap[r] \in Succeeded(calls)

C7_Witness ==
  \E i \in Succeeded(calls) :
    /\ lastSet.value < i
    /\ GetNow = lastSet.value

\* C10: every get that finds no valid entry issues its own getMembers call:
\* the calls issued are as many as the misses observed, each fetching request
\* awaits a call of its own, and a successful call's result is what was set.
C10_NoDeduplication ==
  /\ misses = Cardinality(Issued(calls))
  /\ \A r \in Requests : pc[r] = "fetching" => snap[r] \in InFlight(calls)
  /\ \A r, q \in Requests :
       (pc[r] = "fetching" /\ pc[q] = "fetching" /\ r # q) => snap[r] # snap[q]
  /\ Cardinality(InFlight(calls)) = Cardinality({r \in Requests : pc[r] = "fetching"})
  /\ (Succeeded(calls) # {}) <=> (lastSet.value # Absent)
  /\ lastSet.value # Absent => lastSet.value \in Succeeded(calls)

C10_Witness ==
  /\ Cardinality(InFlight(calls)) >= 2
  /\ \E r, q \in Requests : r # q /\ pc[r] = "fetching" /\ pc[q] = "fetching"

-----------------------------------------------------------------------------
(* Requests that do not overlap in time: one is started only when no other *)
(* is between its arrival and its response.                                *)

Resting(r) == pc[r] \in {"idle", "ok", "error"}

SeqStart(r) ==
  /\ \A q \in Requests : Resting(q)
  /\ Start(r)

SeqNext ==
  \/ \E r \in Requests : SeqStart(r)
  \/ \E r \in Requests : LinksFail(r)
  \/ \E r \in Requests : GetHit(r)
  \/ \E r \in Requests : GetMiss(r)
  \/ \E r \in Requests : GetMembersOk(r)
  \/ \E r \in Requests : GetMembersFail(r)
  \/ \E r \in Requests : SearchOk(r)
  \/ \E r \in Requests : SearchFail(r)
  \/ Tick

SeqSpec == Init /\ [][SeqNext]_vars

\* a hit changes neither the cache nor the calls, and returns the entry's value
HitFrame ==
  \A r \in Requests :
    HitStep(r) => /\ snap'[r] = cache.value
                  /\ cache' = cache
                  /\ calls' = calls
                  /\ lastSet' = lastSet
                  /\ misses' = misses

\* any two getMembers calls are issued at least TTL apart
OncePerWindow ==
  \A i, j \in Issued(calls) :
    i < j => calls[j].issuedAt - calls[i].issuedAt >= TTL

\* a call issued after a successful call is issued at least TTL after it
OncePerWindowAfterSuccess ==
  \A i, j \in Issued(calls) :
    (i < j /\ calls[i].state = "ok") => calls[j].issuedAt - calls[i].issuedAt >= TTL

\* C9 (as stated): a hit returns the cached snapshot, invokes nothing and sets
\* nothing, and for requests that do not overlap getMembers is invoked at most
\* once per TTL window.
C9_OncePerTtlWindow == [][HitFrame /\ OncePerWindow']_vars

\* C9 (amended): a hit returns the cached snapshot, invokes nothing and sets
\* nothing, and for requests that do not overlap no getMembers call is issued
\* within TTL of a call that succeeded; a call that failed stores nothing and
\* may be followed by another at once.
C9_HitIsReadOnly == [][HitFrame /\ OncePerWindowAfterSuccess']_vars

C9_Witness ==
  /\ \E r \in Requests : pc[r] = "search" /\ served[r] = "cache"
  /\ \E i, j \in Issued(calls) :
       i < j /\ calls[i].state = "failed" /\ calls[j].state = "ok"
             /\ calls[j].issuedAt - calls[i].issuedAt < TTL

-----------------------------------------------------------------------------
(* The synchronous part of one request: equivalentLegacyPeopleSearch from   *)
(* line 43 on, and the route handler router.get('/').                       *)

MaxLen == 3

MaxPage == 3

MaxPageSize == 4

\* req.query.page_number is missing
NoPage == -1

ValidTypes ==
  {"linked", "active", "unlinked", "former", "serviceAccount", "unknownAccount",
   "owners"}

\* req.query.type: missing, empty, unknown, wrongly cased, or valid
TypeInputs == ValidTypes \cup {Undefined, "", "bogus", "Linked"}

PhraseInputs == {Undefined, "bob"}

\* an optional field is a sequence of length 0 (absent) or 1 (present)
None == <<>>

Some(x) == <<x>>

\* ICrossOrganizationSearchedMember: orgs is the list of the mapping's own
\* properties, each <<organization name, that organization's account object>>
MemberRecords ==
  { [id |-> 1, link |-> Some("link-alice"),
     account |-> Some([login |-> "alice", avatar_url |-> "alice.png", id |-> 1]),
     orgs |-> Some(<< <<"org-a", "view-a1">>, <<"org-b", "view-b1">> >>)],
    [id |-> 2, link |-> None, account |-> None, orgs |-> None],
    [id |-> 3, link |-> None,
     account |-> Some([login |-> "carol", avatar_url |-> "carol.png", id |-> 3]),
     orgs |-> Some(<< <<"org-b", "view-b3">>, <<"org-a", "view-a3">> >>)] }

\* the account objects held as values of the per-organization mappings
OrgViews == {"view-a1", "view-b1", "view-a3", "view-b3"}

SeqsUpTo(S, n) == UNION {[1..k -> S] : k \in 0..n}

\* the collections search.search may leave in searcher.members
SearchResults == SeqsUpTo(MemberRecords, MaxLen)

RequestInputs == [type : TypeInputs, q : PhraseInputs,
              page_number : {NoPage} \cup 0..MaxPage,
              pageSize : 1..MaxPageSize]

\* lines 46-57 with the validation left out
NormalizeTypeForward(type) == type

\* lines 46-57: a type outside validTypes becomes null
NormalizeType(type) == IF type \in ValidTypes THEN type ELSE Null

\* lines 58-73: const filters = []
Filters(type, phrase) ==
  (IF Truthy(type)
     THEN << [type |-> "type", value |-> type,
              displayValue |-> IF type = "former" THEN "formerly known" ELSE type,
              displaySuffix |-> "members"] >>
     ELSE << >>)
  \o
  (IF Truthy(phrase)
     THEN << [type |-> "phrase", value |-> phrase, displayPrefix |-> "matching"] >>
     ELSE << >>)

\* lines 74-83: the options given to new MemberSearch
SearchOptions(type, phrase) ==
  [phrase |-> phrase, type |-> type, pageSize |-> 1000000, orgId |-> Null,
   isOrganizationScoped |-> FALSE]

\* line 43: const page = req.query.page_number ? Number(...) : 1
SearchPage(q) == IF q.page_number = NoPage THEN 1 ELSE q.page_number

\* new JsonPager(req, res): page numbers below 1 become 1
NewJsonPager(q) ==
  [page |-> IF q.page_number < 1 THEN 1 ELSE q.page_number,
   pageSize |-> q.pageSize, total |-> 0]

\* pager.slice(array): the page, the pager having seen the array's length, and
\* the array as the call leaves it
JsonPagerSlice(pager, array) ==
  LET offset == (pager.page - 1) * pager.pageSize IN
  [page |-> SubSeq(array, offset + 1, Min(offset + pager.pageSize, Len(array))),
   pager |-> [pager EXCEPT !.total = Len(array)],
   array |-> array]

\* has-more computed with the comparison off by one
JsonPagerHasMoreInclusive(pager) ==
  (pager.page - 1) * pager.pageSize + pager.pageSize <= pager.total

\* offset + pageSize < totalLength
JsonPagerHasMore(pager) ==
  (pager.page - 1) * pager.pageSize + pager.pageSize < pager.total

\* pager.sendJson(values): the page envelope
JsonPagerSendJson(pager, values) ==
  [values |-> values, page |-> pager.page, pageSize |-> pager.pageSize,
   total |-> pager.total, hasMore |-> JsonPagerHasMore(pager)]

\* corporateLinkToJson(link)
CorporateLinkToJson(link) == <<"json", link>>

\* Object.values in place of Object.getOwnPropertyNames
GetOwnPropertyValues(obj) == [i \in 1..Len(obj) |-> obj[i][2]]

\* Object.getOwnPropertyNames(obj)
GetOwnPropertyNames(obj) == [i \in 1..Len(obj) |-> obj[i][1]]

\* Object.assign(target, source): the source's properties win
ObjectAssign(target, source) ==
  [k \in (DOMAIN target) \cup (DOMAIN source) |->
     IF k \in DOMAIN source THEN source[k] ELSE target[k]]

\* lines 119-126: the record sent for one member
MemberResponse(xMember) ==
  ObjectAssign(
    [link |-> IF xMember.link # None THEN Some(CorporateLinkToJson(xMember.link[1]))
                                     ELSE None,
     id |-> xMember.id,
     organizations |-> IF xMember.orgs # None
                         THEN GetOwnPropertyNames(xMember.orgs[1]) ELSE << >>],
    IF xMember.account # None THEN xMember.account[1] ELSE [id |-> xMember.id])

\* line 119 mapping the whole collection instead of the slice
RoutePageUnsliced(pager, members) ==
  [page |-> members, pager |-> [pager EXCEPT !.total = Len(members)],
   array |-> members]

\* line 118: const slice = pager.slice(members)
RoutePage(pager, members) == JsonPagerSlice(pager, members)

\* Lines 114, 43-84: the pager is built, the type normalised, the filters and
\* the search options assembled; search.search(page, sort) is awaited.
BuildSearch ==
  /\ h.pc = "start"
  /\ LET type == NormalizeType(req.type) IN
       h' = [pc |-> "search", pager |-> NewJsonPager(req), type |-> type,
             filters |-> Filters(type, req.q),
             options |-> SearchOptions(type, req.q),
             page |-> SearchPage(req)]
  /\ UNCHANGED <<req, cacheVars>>

\* search.search resolves (lines 84-85, 116-117): searcher.members
SearchReturns ==
  /\ h.pc = "search"
  /\ \E found \in SearchResults :
       h' = [pc |-> "found", pager |-> h.pager, type |-> h.type,
             filters |-> h.filters, options |-> h.options, page |-> h.page,
             found |-> found, members |-> found]
  /\ UNCHANGED <<req, cacheVars>>

\* search.search rejects: the catch answers next(jsonError(repoError))
SearchRejects ==
  /\ h.pc = "search"
  /\ h' = [pc |-> "error", pager |-> h.pager, type |-> h.type,
           filters |-> h.filters, options |-> h.options, page |-> h.page]
  /\ UNCHANGED <<req, cacheVars>>

\* Lines 118-127: the page is sliced, each member mapped, the envelope sent.
SliceAndSend ==
  /\ h.pc = "found"
  /\ LET sliced == RoutePage(h.pager, h.members)
         values == [i \in 1..Len(sliced.page) |-> MemberResponse(sliced.page[i])]
     IN h' = [pc |-> "sent", pager |-> sliced.pager, type |-> h.type,
              filters |-> h.filters, options |-> h.options, page |-> h.page,
              found |-> h.found, members |-> sliced.array, slice |-> sliced.page,
              response |-> JsonPagerSendJson(sliced.pager, values)]
  /\ UNCHANGED <<req, cacheVars>>

HandlerInit ==
  /\ CacheInit
  /\ req \in RequestInputs
  /\ h = [pc |-> "start"]

HandlerNext ==
  \/ BuildSearch
  \/ SearchReturns
  \/ SearchRejects
  \/ SliceAndSend

HandlerSpec == HandlerInit /\ [][HandlerNext]_vars

-----------------------------------------------------------------------------
(* Properties of the synchronous part *)

Sent == h.pc = "sent"

\* the offset of the requested page in the collection
Offset == (h.pager.page - 1) * h.pager.pageSize

\* C3: the page is the contiguous run of the collection that starts at offset
\* (N-1)*P, in order, of length max(0, min(P, L - (N-1)*P)); beyond the end it
\* is empty and the response is still sent; the collection is left as it was.
C3_PageIsContiguousRun ==
  Sent =>
    LET L == Len(h.found)
        P == h.pager.pageSize
    IN /\ h.pager.page >= 1 /\ P > 0
       /\ Len(h.slice) = Max(0, Min(P, L - Offset))
       /\ \A i \in 1..Len(h.slice) : h.slice[i] = h.found[Offset + i]
       /\ Offset >= L => h.slice = << >>
       /\ h.members = h.found
       /\ Len(h.response.values) = Len(h.slice)

C3_Witness ==
  /\ Sent
  /\ h.pager.page >= 2
  /\ Len(h.slice) > 0
  /\ Len(h.slice) < h.pager.pageSize
  /\ h.slice[1] # h.found[1]

\* C4: a type outside the enumeration, or none, gives the search options and
\* the filter list of the same request without a type: type null and no
\* 'type' filter; a type of the enumeration is forwarded unchanged; nothing
\* but null or a type of the enumeration reaches the search.
C4_TypeNormalized ==
  h.pc \in {"search", "found", "sent", "error"} =>
    LET untyped == NormalizeType(Undefined) IN
    /\ req.type \notin ValidTypes =>
         /\ h.options.type = Null
         /\ h.options = SearchOptions(untyped, req.q)
         /\ h.filters = Filters(untyped, req.q)
         /\ \A i \in 1..Len(h.filters) : h.filters[i].type # "type"
    /\ req.type \in ValidTypes =>
         /\ h.options.type = req.type
         /\ h.filters[1].type = "type" /\ h.filters[1].value = req.type
    /\ h.options.type \in ValidTypes \cup {Null}

C4_Witness ==
  /\ h.pc = "search"
  /\ req.type = "bogus"
  /\ req.q = "bob"
  /\ h.options.type = Null
  /\ Len(h.filters) = 1

\* the organization names of a member's mapping, in the mapping's order
OrgNames(m) ==
  IF m.orgs = None THEN << >> ELSE [j \in 1..Len(m.orgs[1]) |-> m.orgs[1][j][1]]

\* C5: each record sent lists exactly the key names of its member's
\* per-organization mapping, in the mapping's order (none without a mapping),
\* and holds no value of the mapping: its properties are link, id,
\* organizations and the account's login and avatar_url.
C5_OrganizationsAreKeys ==
  Sent =>
    \A i \in 1..Len(h.slice) :
      LET out == h.response.values[i] IN
      /\ out.organizations = OrgNames(h.slice[i])
      /\ \A j \in 1..Len(out.organizations) : out.organizations[j] \notin OrgViews
      /\ DOMAIN out \subseteq {"link", "id", "organizations", "login", "avatar_url"}
      /\ "login" \in DOMAIN out => out.login \notin OrgViews
      /\ "avatar_url" \in DOMAIN out => out.avatar_url \notin OrgViews

C5_Witness ==
  /\ Sent
  /\ Len(h.slice) = 2
  /\ h.slice[1].id = 3 /\ h.response.values[1].organizations = <<"org-b", "org-a">>
  /\ h.slice[2].id = 2 /\ h.response.values[2].organizations = << >>

\* C8: has-more is true exactly when (N-1)*P + P < L, that is exactly when the
\* next page is not empty; a page size above the collection's length gives the
\* whole collection on page 1 and no further page.
C8_HasMore ==
  Sent =>
    LET L == Len(h.found)
        P == h.pager.pageSize
        next == JsonPagerSlice([h.pager EXCEPT !.page = h.pager.page + 1], h.found)
    IN /\ h.response.hasMore <=> Offset + P < L
       /\ h.response.hasMore <=> next.page # << >>
       /\ (P > L /\ h.pager.page = 1) =>
            /\ h.slice = h.found
            /\ Len(h.response.values) = L
            /\ ~h.response.hasMore

C8_Witness ==
  /\ Sent
  /\ Len(h.found) = 3
  /\ {h.found[i].id : i \in 1..3} = {1, 2, 3}
  /\ h.pager.pageSize > 3
  /\ req.page_number = 1
  /\ Len(h.response.values) = 3
  /\ ~h.response.hasMore

====
